---------------------------- MODULE Spec2Model ----------------------------
(***************************************************************************)
(* Drag-to-reorder list (react-native-draggable-order-list).               *)
(*                                                                         *)
(* Two execution contexts are modelled.  The UI context runs the gesture   *)
(* worklets of every DraggableItem (onStart, onUpdate, onEnd), the layout  *)
(* measurements and the scroll handler; they read and write the shared     *)
(* values owned by DraggableList.  The RN (JavaScript) context runs the    *)
(* calls handed over with scheduleOnRN in the order they were issued, the  *)
(* data effect of DraggableList and the auto-scroll interval.  Each        *)
(* callback is one atomic action.                                          *)
(*                                                                         *)
(* Item identities are the integers 1..NumIds; String(item.id) of an       *)
(* integer id is an integer-like key, so Object.keys enumerates the keys   *)
(* of the position table in ascending numeric order.                       *)
(***************************************************************************)
EXTENDS Integers, Sequences, FiniteSets, TLC

\* ----------------------------------------------------------------- bounds
NumIds == 3          \* identities the caller may put in data
MaxTouches == 2      \* pan gestures that may be active at the same time
MaxDrags == 2        \* drag starts in one run
MaxUpdates == 2      \* gesture updates in one run
MaxSupplies == 1     \* data re-supplies in one run
MaxQueue == 3        \* calls waiting for the RN context
MaxLate == 1         \* items whose height report may come after a gesture

Ids == 1..NumIds
\* the height the content of item i takes once laid out
NaturalHeight(i) == IF i = 2 THEN 120 ELSE 60
TransSet == {0 - 150, 0 - 30, 0, 30, 60, 90, 210}   \* event.translationY

\* ------------------------------------------------- values of the program
NoKey == 0                 \* draggableItemKey.value === null
NotANumber == 0 - 100000   \* NaN
Undefined == 0 - 1         \* a missing property read (positions.value[k])
scrollZone == 100
autoScrollSpeed == 100     \* the autoScrollSpeed prop this list is given
ViewportHeight == 400      \* layout height of the list view
LowViewportHeight == 250   \* the same while a keyboard covers part of it
ContentExtent == 240       \* content height reported to onContentSizeChange
TallContentExtent == 1000  \* the same for a list with a tall footer

VARIABLES
    \* DraggableList, RN context
    data,                \* the data prop
    currentOrderRef,     \* currentOrderRef.current
    listLength,          \* listLength prop the rendered items hold
    listMounted,         \* the DraggableList is mounted
    isDragging,          \* useState of each DraggableItem
    scrollIntervalRef,   \* scrollIntervalRef.current (0 is null)
    timers,              \* live setInterval timers: [id, direction]
    rnQueue,             \* calls issued with scheduleOnRN, not yet run
    contentOffset,       \* scroll offset of the native list view
    \* DraggableList, shared values
    draggableItemKey,
    draggedItemPosition,
    positions,
    itemHeights,
    containerHeight,
    contentHeight,
    autoScrollDirection,
    scrollY,
    \* DraggableItem, shared values of each item
    isDraggingShared,
    initialScrollY,
    initialIndex,
    initialItemOffset,
    initialLayoutOffset,
    translateY,          \* the value the item's spring is heading for
    \* gesture recogniser of each item
    gesture,
    \* history
    last,                \* the callback that ran last, with its inputs
    nDrags,
    nUpdates,
    nSupplies

vars == << data, currentOrderRef, listLength, listMounted, isDragging, scrollIntervalRef,
           timers, rnQueue, contentOffset, draggableItemKey,
           draggedItemPosition, positions, itemHeights, containerHeight,
           contentHeight, autoScrollDirection, scrollY, isDraggingShared,
           initialScrollY, initialIndex, initialItemOffset,
           initialLayoutOffset, translateY, gesture, last,
           nDrags, nUpdates, nSupplies >>

listVars == << data, currentOrderRef, listLength, listMounted >>
timerVars == << scrollIntervalRef, timers, contentOffset >>
layoutVars == << itemHeights, containerHeight, contentHeight >>
startVars == << isDraggingShared, initialScrollY, initialIndex,
                initialItemOffset, initialLayoutOffset, gesture >>
itemVars == << startVars, translateY >>
boundVars == << nDrags, nUpdates, nSupplies >>

\* ---------------------------------------------------------------- helpers
Max(a, b) == IF a > b THEN a ELSE b
Min(a, b) == IF a < b THEN a ELSE b
Range(s) == { s[n] : n \in DOMAIN s }

\* the rendered index of item i (the index prop FlatList passes)
Index(i) == CHOOSE n \in 0..(Len(data) - 1) : data[n + 1] = i
Mounted(i) == listMounted /\ i \in Range(data)

\* positions.value[k], Undefined for a key the object does not hold
Pos(pos, k) == IF k \in DOMAIN pos THEN pos[k] ELSE Undefined

\* itemHeights.value[k] || 0
HeightOr0(k) == IF k \in DOMAIN itemHeights THEN itemHeights[k] ELSE 0

Label(op, i, y, from, to) ==
    [op |-> op, item |-> i, y |-> y, from |-> from, to |-> to]

\* one call handed to scheduleOnRN: fn(a, b) or fn(d); item is the item whose
\* worklet issued it and g its own slot at that moment (history only)
Call(fn, i, a, b, d, g) ==
    [fn |-> fn, item |-> i, a |-> a, b |-> b, d |-> d, g |-> g]

\* ------------------------------------------------------- swap resolver
\* keys of the table other than the dragged one, sorted by slot
\* (Array.prototype.sort is stable: equal slots keep Object.keys order)
RECURSIVE SortKeys(_, _)
SortKeys(pos, ks) ==
    IF ks = {} THEN << >>
    ELSE LET m == CHOOSE k \in ks : \A o \in ks :
                        \/ pos[k] < pos[o]
                        \/ (pos[k] = pos[o] /\ k <= o)
         IN << m >> \o SortKeys(pos, ks \ {m})

\* sortedItems: the keys other than the dragged one, by slot
SortedItems(pos, key) == SortKeys(pos, (DOMAIN pos) \ {key})

\* the comparison a resolver would make if a tie with a centre kept the
\* dragged item below it
BeforeCenterOrOn(y, runningY, height) == 2 * y <= 2 * runningY + height

\* currentAbsoluteY < runningY + item.height / 2
BeforeCenter(y, runningY, height) == 2 * y < 2 * runningY + height

\* the scan over sortedItems: the number of items passed before the break
RECURSIVE ScanNewPos(_, _, _, _)
ScanNewPos(items, y, runningY, newPos) ==
    IF items = << >> THEN newPos
    ELSE LET height == HeightOr0(Head(items))
         IN IF BeforeCenter(y, runningY, height) THEN newPos
            ELSE ScanNewPos(Tail(items), y, runningY + height, newPos + 1)

\* Math.max(0, Math.min(listLength - 1, newPos))
ClampPosition(newPos) == Max(0, Min(listLength - 1, newPos))

NewPosition(pos, key, y) ==
    ClampPosition(ScanNewPos(SortedItems(pos, key), y, 0, 0))

\* a shift that would leave out the item at the far end of the range
ShiftOtherExclusive(itemPos, oldPosition, newPosition) ==
    IF oldPosition # Undefined /\ newPosition > oldPosition
       /\ itemPos > oldPosition /\ itemPos < newPosition
    THEN itemPos - 1
    ELSE IF oldPosition # Undefined /\ newPosition < oldPosition
            /\ itemPos < oldPosition /\ itemPos > newPosition
    THEN itemPos + 1
    ELSE itemPos

\* the new slot of one other item inside positions.modify
ShiftOther(itemPos, oldPosition, newPosition) ==
    IF oldPosition # Undefined /\ newPosition > oldPosition
       /\ itemPos > oldPosition /\ itemPos <= newPosition
    THEN itemPos - 1
    ELSE IF oldPosition # Undefined /\ newPosition < oldPosition
            /\ itemPos < oldPosition /\ itemPos >= newPosition
    THEN itemPos + 1
    ELSE itemPos

\* positions.modify((value) => ...) of onUpdate
ModifyPositions(pos, key, newPosition) ==
    LET oldPosition == Pos(pos, key)
    IN [k \in (DOMAIN pos) \cup {key} |->
            IF k = key THEN newPosition
            ELSE ShiftOther(pos[k], oldPosition, newPosition)]

\* sum of the heights of the items whose slot is below p
RECURSIVE SumHeights(_)
SumHeights(ks) ==
    IF ks = {} THEN 0
    ELSE LET k == CHOOSE x \in ks : TRUE
         IN HeightOr0(k) + SumHeights(ks \ {k})

OffsetOfSlot(pos, p) == SumHeights({k \in DOMAIN pos : pos[k] < p})

\* ------------------------------------------------------ auto-scroll zone
\* a zone test that would look at the bottom band first
ZoneDirectionDownFirst(visualY) ==
    IF visualY > containerHeight - (scrollZone * 2) THEN "down"
    ELSE IF visualY < scrollZone THEN "up"
    ELSE "stop"

\* the direction onUpdate finds for a viewport-relative offset
ZoneDirection(visualY) ==
    IF visualY < scrollZone THEN "up"
    ELSE IF visualY > containerHeight - (scrollZone * 2) THEN "down"
    ELSE "stop"

\* an onUpdate that would announce its direction on every frame
ScrollRequestsEveryFrame(i, previousDirection, direction) ==
    IF direction = "stop"
    THEN << Call("stopAutoScroll", i, 0, 0, "stop", 0) >>
    ELSE << Call("startAutoScroll", i, 0, 0, direction, 0) >>

\* the calls onUpdate schedules for the direction it computed
ScrollRequests(i, previousDirection, direction) ==
    IF direction = previousDirection THEN << >>
    ELSE IF direction = "stop"
    THEN << Call("stopAutoScroll", i, 0, 0, "stop", 0) >>
    ELSE << Call("startAutoScroll", i, 0, 0, direction, 0) >>

\* ------------------------------------------------------- handleDragEnd
\* Array.prototype.splice clamps its start index to [0, length];
\* an undefined start is 0
SpliceStart(order, start) ==
    IF start = Undefined THEN 0 ELSE Min(start, Len(order))

RemoveAt(order, n) ==
    IF n < Len(order)
    THEN SubSeq(order, 1, n) \o SubSeq(order, n + 2, Len(order))
    ELSE order

\* [movedItem] = newData.splice(fromIndex, 1): undefined when nothing is there
MovedItem(order, fromIndex) ==
    LET n == SpliceStart(order, fromIndex)
    IN IF n < Len(order) THEN order[n + 1] ELSE Undefined

InsertAt(order, n, x) ==
    SubSeq(order, 1, n) \o << x >> \o SubSeq(order, n + 1, Len(order))

HandleDragEnd(order, fromIndex, toIndex) ==
    IF fromIndex = toIndex THEN order
    ELSE LET removed == RemoveAt(order, SpliceStart(order, fromIndex))
         IN InsertAt(removed, SpliceStart(removed, toIndex),
                     MovedItem(order, fromIndex))

\* ------------------------------------------------------------ the list
\* a map that would number the slots from 1
PositionsOneBased(d) == [k \in Range(d) |-> CHOOSE n \in DOMAIN d : d[n] = k]

\* data.forEach((item, index) => map[String(item.id)] = index)
PositionsOf(d) == [k \in Range(d) |-> (CHOOSE n \in DOMAIN d : d[n] = k) - 1]

\* duplicate-free, non-empty sequences of identities
\* the sequences the caller re-supplies: the same one, a reordered one, a
\* shorter one (identities are unique in each, the documented precondition)
DataSet == { << 1, 2, 3 >>, << 2, 3, 1 >>, << 1, 3 >> }

InitialData == [n \in 1..NumIds |-> n]

ActiveGestures == { i \in Ids : gesture[i] = "active" }

\* The first layout pass is over: the list view and its content have
\* reported their sizes and at most MaxLate rendered items still wait for
\* their height report.  Gestures, re-renders and timers come after it.
LaidOut ==
    /\ containerHeight # 0
    /\ contentHeight # 0
    /\ Cardinality({ i \in Range(data) : i \notin DOMAIN itemHeights })
         <= MaxLate

\* the list mounted with the sequence d as its data prop
InitWith(d) ==
    /\ data = d
    /\ currentOrderRef = d
    /\ listLength = Len(d)
    /\ listMounted = TRUE
    /\ isDragging = [i \in Ids |-> FALSE]
    /\ scrollIntervalRef = 0
    /\ timers = {}
    /\ rnQueue = << >>
    /\ contentOffset = 0
    /\ draggableItemKey = NoKey
    /\ draggedItemPosition = 0 - 1
    /\ positions = PositionsOf(d)
    /\ itemHeights = << >>
    /\ containerHeight = 0
    /\ contentHeight = 0
    /\ autoScrollDirection = "stop"
    /\ scrollY = 0
    /\ isDraggingShared = [i \in Ids |-> FALSE]
    /\ initialScrollY = [i \in Ids |-> 0]
    /\ initialIndex = [i \in Ids |-> IF i \in Range(d)
                                      THEN PositionsOf(d)[i] ELSE 0]
    /\ initialItemOffset = [i \in Ids |-> 0]
    /\ initialLayoutOffset = [i \in Ids |-> 0]
    /\ translateY = [i \in Ids |-> 0]
    /\ gesture = [i \in Ids |-> "idle"]
    /\ last = Label("mount", 0, 0, 0, 0)
    /\ nDrags = 0
    /\ nUpdates = 0
    /\ nSupplies = 0

Init == InitWith(InitialData)

\* a list mounted with two of the identities
ShortData == << 1, 3 >>
InitShort == InitWith(ShortData)

\* ------------------------------------------------------------- layout
\* DraggableItem.onLayout: a height above 0 is stored under the item's key
OnLayout(i) ==
    LET height == NaturalHeight(i) IN
    /\ Mounted(i)
    /\ i \notin DOMAIN itemHeights
    /\ \A j \in Range(data) : Index(j) < Index(i) => j \in DOMAIN itemHeights
    /\ itemHeights' =
         IF height > 0
         THEN [k \in (DOMAIN itemHeights) \cup {i} |->
                 IF k = i THEN height ELSE itemHeights[k]]
         ELSE itemHeights
    /\ last' = Label("layout", i, height, 0, 0)
    /\ UNCHANGED << listVars, isDragging, timerVars, rnQueue,
                    draggableItemKey, draggedItemPosition, positions,
                    containerHeight, contentHeight, autoScrollDirection,
                    scrollY, itemVars, boundVars >>

ContainerLayout(height) ==
    /\ listMounted
    /\ containerHeight # height
    /\ containerHeight' = height
    /\ last' = Label("containerLayout", 0, height, 0, 0)
    /\ UNCHANGED << listVars, isDragging, timerVars, rnQueue,
                    draggableItemKey, draggedItemPosition, positions,
                    itemHeights, contentHeight, autoScrollDirection,
                    scrollY, itemVars, boundVars >>

ContentSizeChange(height) ==
    /\ listMounted
    /\ contentHeight # height
    /\ contentHeight' = height
    /\ last' = Label("contentSize", 0, height, 0, 0)
    /\ UNCHANGED << listVars, isDragging, timerVars, rnQueue,
                    draggableItemKey, draggedItemPosition, positions,
                    itemHeights, containerHeight, autoScrollDirection,
                    scrollY, itemVars, boundVars >>

OnContainerLayout == ContainerLayout(ViewportHeight)

\* the list view shrinks after its first layout
OnLowContainerLayout == containerHeight # 0 /\ ContainerLayout(LowViewportHeight)

OnContentSizeChange == ContentSizeChange(ContentExtent)
OnTallContentSizeChange == ContentSizeChange(TallContentExtent)

\* useAnimatedScrollHandler.onScroll
OnScroll ==
    /\ listMounted
    /\ scrollY # contentOffset
    /\ scrollY' = contentOffset
    /\ last' = Label("scroll", 0, contentOffset, 0, 0)
    /\ UNCHANGED << listVars, isDragging, timerVars, rnQueue,
                    draggableItemKey, draggedItemPosition, positions,
                    layoutVars, autoScrollDirection, itemVars, boundVars >>

\* ----------------------------------------------------- sibling movement
\* a - b of two numbers
Minus(a, b) == IF a = NotANumber \/ b = NotANumber THEN NotANumber
               ELSE a - b

\* The reaction of item i to the position table pos and the marker key,
\* with index its rendered index and ty its present target: the target it
\* leaves.  A product with an unmeasured height is not a number.
Reaction(i, index, pos, key, ty) ==
    LET currentTargetPos == Pos(pos, i)
        isDraggingNow == key # NoKey
    IN IF key = i /\ isDraggingNow THEN ty
       ELSE IF /\ isDraggingNow
               /\ currentTargetPos # Undefined
               /\ currentTargetPos # index
       THEN IF i \in DOMAIN itemHeights
            THEN (currentTargetPos - index) * itemHeights[i]
            ELSE NotANumber
       ELSE IF isDraggingNow /\ currentTargetPos = index THEN 0
       ELSE ty

\* every mounted item reacts to a write of the position table or the marker
Reactions(pos, key, tys) ==
    [i \in Ids |-> IF Mounted(i)
                   THEN Reaction(i, Index(i), pos, key, tys[i])
                   ELSE tys[i]]

\* ------------------------------------------------------------ gestures
\* the argument of scheduleOnRN(onDragStart, index), for an item that is
\* given an onDragStart handler
StartEventArg(i) == Index(i)

\* panGesture.onStart of item i; the step records the argument onDragStart
\* gets with the slot the item starts from
OnStart(i) ==
    LET currentPos == IF i \in DOMAIN positions THEN positions[i]
                      ELSE Index(i)
        measuredZero == i \in DOMAIN itemHeights /\ itemHeights[i] = 0
    IN
    /\ Mounted(i)
    /\ LaidOut
    /\ gesture[i] = "idle"
    /\ Cardinality(ActiveGestures) < MaxTouches
    /\ nDrags < MaxDrags
    /\ Len(rnQueue) + 1 <= MaxQueue
    /\ gesture' = [gesture EXCEPT ![i] = "active"]
    /\ nDrags' = nDrags + 1
    /\ draggableItemKey' = i
    /\ initialScrollY' = [initialScrollY EXCEPT ![i] = scrollY]
    /\ initialIndex' = [initialIndex EXCEPT ![i] = currentPos]
    /\ translateY' = Reactions(positions, i, translateY)
    /\ IF measuredZero
       THEN UNCHANGED << initialItemOffset, initialLayoutOffset,
                         isDraggingShared, rnQueue >>
       ELSE /\ initialItemOffset' =
                 [initialItemOffset EXCEPT
                    ![i] = OffsetOfSlot(positions, currentPos)]
            /\ initialLayoutOffset' =
                 [initialLayoutOffset EXCEPT
                    ![i] = Minus(OffsetOfSlot(positions, currentPos),
                                 translateY[i])]
            /\ isDraggingShared' = [isDraggingShared EXCEPT ![i] = TRUE]
            /\ rnQueue' = Append(rnQueue,
                 Call("setIsDragging", i, 1, 0, "", currentPos))
    /\ last' = Label("start", i, StartEventArg(i), currentPos, currentPos)
    /\ UNCHANGED << listVars, isDragging, timerVars, draggedItemPosition,
                    positions, layoutVars, autoScrollDirection, scrollY,
                    nUpdates, nSupplies >>

\* an offset that would leave the scroll movement since the start out
AbsoluteYUncompensated(itemOffset, t, scroll, startScroll) == itemOffset + t

\* currentAbsoluteY = initialItemOffset + (translationY + scrollDelta)
CurrentAbsoluteY(itemOffset, t, scroll, startScroll) ==
    itemOffset + (t + (scroll - startScroll))

\* the record of an update step: the label with event.translationY added
UpdateLabel(i, t, y, from, to) ==
    Label("update", i, y, from, to) @@ [t |-> t]

\* the position table after the commit of onUpdate, if there was one
ModifiedOrSame(pos, key, newPosition) ==
    IF newPosition # Pos(pos, key)
    THEN ModifyPositions(pos, key, newPosition)
    ELSE pos

\* snapOffset: the heights of the keys read before the commit whose slot
\* after it is below newPosition, less the item's initial layout offset
SnapOffset(posAfter, newPosition, layoutOffset) ==
    Minus(OffsetOfSlot(posAfter, newPosition), layoutOffset)

\* what panGesture.onUpdate of item i writes, for event.translationY = t
UpdateWrites(i, t) ==
    LET key == draggableItemKey
        currentAbsoluteY ==
            CurrentAbsoluteY(initialItemOffset[i], t, scrollY,
                             initialScrollY[i])
        direction == ZoneDirection(currentAbsoluteY - scrollY)
        newPosition == NewPosition(positions, key, currentAbsoluteY)
    IN
    IF key = NoKey \/ (key \in DOMAIN itemHeights /\ itemHeights[key] = 0)
    THEN /\ UNCHANGED << autoScrollDirection, rnQueue, draggedItemPosition,
                         positions, translateY >>
         /\ last' = UpdateLabel(i, t, currentAbsoluteY, Undefined, Undefined)
    ELSE /\ autoScrollDirection' = direction
         /\ rnQueue' = rnQueue \o
                ScrollRequests(i, autoScrollDirection, direction)
         /\ draggedItemPosition' = newPosition
         /\ positions' =
              IF newPosition # Pos(positions, key)
              THEN ModifyPositions(positions, key, newPosition)
              ELSE positions
         /\ translateY' =
              LET snapped == [translateY EXCEPT ![i] = SnapOffset(
                                 ModifiedOrSame(positions, key, newPosition),
                                 newPosition, initialLayoutOffset[i])]
              IN IF newPosition # Pos(positions, key)
                 THEN Reactions(ModifyPositions(positions, key, newPosition),
                                key, snapped)
                 ELSE snapped
         /\ last' = UpdateLabel(i, t, currentAbsoluteY,
                                Pos(positions, key), newPosition)

\* an onUpdate that would also rewrite the order kept on the RN side
OnUpdateLiveOrder(i, t) ==
    /\ gesture[i] = "active"
    /\ Len(rnQueue) + 1 <= MaxQueue
    /\ nUpdates < MaxUpdates
    /\ nUpdates' = nUpdates + 1
    /\ UpdateWrites(i, t)
    /\ currentOrderRef' = SortKeys(positions', DOMAIN positions')
    /\ UNCHANGED << data, listLength, listMounted, isDragging, timerVars,
                    draggableItemKey, layoutVars, scrollY, startVars, nDrags,
                    nSupplies >>

\* panGesture.onUpdate of item i
OnUpdate(i, t) ==
    /\ gesture[i] = "active"
    /\ Len(rnQueue) + 1 <= MaxQueue
    /\ nUpdates < MaxUpdates
    /\ nUpdates' = nUpdates + 1
    /\ UpdateWrites(i, t)
    /\ UNCHANGED << listVars, isDragging, timerVars, draggableItemKey,
                    layoutVars, scrollY, startVars, nDrags, nSupplies >>

\* an onEnd that would report only a drag that changed the slot
EndEventIfMoved(i, fromIndex, finalPosition) ==
    IF fromIndex = finalPosition THEN << >>
    ELSE << Call("onDragEnd", i, fromIndex, finalPosition, "",
                 Pos(positions, i)) >>

\* the onDragEnd(initialIndex, finalPosition) call of onEnd; DraggableList
\* always passes handleDragEnd as onDragEnd
EndEvent(i, fromIndex, finalPosition) ==
    << Call("onDragEnd", i, fromIndex, finalPosition, "",
            Pos(positions, i)) >>

\* The onEnd callback of item i.  The recogniser calls it when an active
\* gesture finishes, whether the finger was lifted (op "end") or the gesture
\* was cancelled (op "cancel"); the callback takes no argument and does the
\* same in both cases.
EndCallback(i, op) ==
    /\ gesture[i] = "active"
    /\ Len(rnQueue) + 3 <= MaxQueue
    /\ gesture' = [gesture EXCEPT ![i] = "idle"]
    /\ IF draggableItemKey = NoKey
       THEN UNCHANGED << autoScrollDirection, rnQueue, isDraggingShared >>
       ELSE /\ autoScrollDirection' = "stop"
            /\ isDraggingShared' = [isDraggingShared EXCEPT ![i] = FALSE]
            /\ rnQueue' = rnQueue
                 \o << Call("stopAutoScroll", i, 0, 0, "stop", 0),
                       Call("setIsDragging", i, 0, 0, "", 0) >>
                 \o EndEvent(i, initialIndex[i],
                             Pos(positions, draggableItemKey))
    /\ last' = Label(op, i, 0, initialIndex[i],
                     Pos(positions, draggableItemKey))
    /\ UNCHANGED << listVars, isDragging, timerVars, draggableItemKey,
                    draggedItemPosition, positions, layoutVars, scrollY,
                    initialScrollY, initialIndex, initialItemOffset,
                    initialLayoutOffset, translateY, boundVars >>

\* panGesture.onEnd of item i, the finger lifted
OnEnd(i) == EndCallback(i, "end")

\* panGesture.onEnd of item i, the gesture cancelled
OnCancel(i) == EndCallback(i, "cancel")

\* ---------------------------------------------------------- RN context
\* a clearInterval that would leave the interval running
ClearNothing(ts, handle) == ts

\* clearInterval(handle); clearing null or a dead handle does nothing
ClearInterval(ts, handle) == { tm \in ts : tm.id # handle }

FreshTimerId == CHOOSE n \in 1..(Cardinality(timers) + 1) :
                    \A tm \in timers : tm.id # n

\* a start that would not clear the interval the ref holds
StartedTimersKeepOld(ts, handle, id, direction) ==
    ts \cup { [id |-> id, direction |-> direction] }

\* the live intervals after startAutoScroll(direction): the one the ref
\* holds is cleared and a new one is set
StartedTimers(ts, handle, id, direction) ==
    ClearInterval(ts, handle) \cup { [id |-> id, direction |-> direction] }

rnVars == << draggableItemKey, draggedItemPosition, positions, layoutVars,
             scrollY, itemVars, boundVars >>

\* setIsDragging(value) of item i; React drops it for an unmounted item
RunSetIsDragging ==
    /\ rnQueue # << >>
    /\ Head(rnQueue).fn = "setIsDragging"
    /\ LET c == Head(rnQueue)
       IN /\ isDragging' = IF Mounted(c.item)
                           THEN [isDragging EXCEPT ![c.item] = (c.a = 1)]
                           ELSE isDragging
          /\ last' = Label("setIsDragging", c.item, 0, c.a, 0)
    /\ rnQueue' = Tail(rnQueue)
    /\ UNCHANGED << listVars, timerVars, autoScrollDirection, rnVars >>

\* useAutoScroll.startAutoScroll(direction)
RunStartAutoScroll ==
    /\ rnQueue # << >>
    /\ Head(rnQueue).fn = "startAutoScroll"
    /\ LET c == Head(rnQueue)
           id == FreshTimerId
       IN /\ timers' = StartedTimers(timers, scrollIntervalRef, id, c.d)
          /\ scrollIntervalRef' = id
          /\ last' = Label("startAutoScroll", c.item, 0, 0, 0)
    /\ rnQueue' = Tail(rnQueue)
    /\ UNCHANGED << listVars, isDragging, contentOffset,
                    autoScrollDirection, rnVars >>

\* useAutoScroll.stopAutoScroll()
RunStopAutoScroll ==
    /\ rnQueue # << >>
    /\ Head(rnQueue).fn = "stopAutoScroll"
    /\ timers' = ClearInterval(timers, scrollIntervalRef)
    /\ scrollIntervalRef' = 0
    /\ last' = Label("stopAutoScroll", Head(rnQueue).item, 0, 0, 0)
    /\ rnQueue' = Tail(rnQueue)
    /\ UNCHANGED << listVars, isDragging, contentOffset,
                    autoScrollDirection, rnVars >>

\* DraggableList.handleDragEnd(fromIndex, toIndex)
RunHandleDragEnd ==
    /\ rnQueue # << >>
    /\ Head(rnQueue).fn = "onDragEnd"
    /\ LET c == Head(rnQueue)
       IN /\ currentOrderRef' = HandleDragEnd(currentOrderRef, c.a, c.b)
          /\ last' = Label("handleDragEnd", c.item, c.g, c.a, c.b)
    /\ rnQueue' = Tail(rnQueue)
    /\ UNCHANGED << data, listLength, listMounted, isDragging, timerVars,
                    autoScrollDirection, rnVars >>

\* a tick that would add or subtract the speed without clamping
NewScrollUnclamped(direction, currentScroll, maxScroll) ==
    IF direction = "up" THEN currentScroll - autoScrollSpeed
    ELSE currentScroll + autoScrollSpeed

\* newScroll of a tick
NewScroll(direction, currentScroll, maxScroll) ==
    IF direction = "up" THEN Max(0, currentScroll - autoScrollSpeed)
    ELSE Min(maxScroll, currentScroll + autoScrollSpeed)

\* a tick that would never find the boundary hit
BoundaryNeverHit(newScroll, currentScroll) == FALSE

\* newScroll === currentScroll
BoundaryHit(newScroll, currentScroll) == newScroll = currentScroll

\* one run of the setInterval callback of the timer tm
Tick(tm) ==
    LET currentScroll == scrollY
        maxScroll == Max(0, contentHeight - containerHeight)
        newScroll == NewScroll(tm.direction, currentScroll, maxScroll)
    IN
    /\ tm \in timers
    /\ IF BoundaryHit(newScroll, currentScroll)
       THEN /\ timers' = ClearInterval(timers, scrollIntervalRef)
            /\ scrollIntervalRef' = 0
            /\ autoScrollDirection' = "stop"
            /\ UNCHANGED contentOffset
       ELSE /\ contentOffset' = IF listMounted THEN newScroll
                                 ELSE contentOffset
            /\ UNCHANGED << timers, scrollIntervalRef, autoScrollDirection >>
    /\ last' = Label("tick", 0, newScroll, 0, 0)
    /\ UNCHANGED << listVars, isDragging, rnQueue, rnVars >>

\* an effect that would add the data to the order it holds
DataEffectAppend(order, d) == order \o d

\* currentOrderRef.current = data
DataEffectOrder(order, d) == d

\* useLayoutEffect of an item rendered with index after prevIndex
LayoutEffect(prevIndex, index, ty) == IF prevIndex # index THEN 0 ELSE ty

\* the data prop changes: the items are rendered with the length the ref
\* holds at that moment, then the effect stores the data and the positions;
\* an item that left the data is unmounted and its gesture dropped
SupplyData(d) ==
    LET stays(i) == i \in Range(d) /\ Mounted(i)
        indexIn(i) == (CHOOSE n \in DOMAIN d : d[n] = i) - 1
    IN
    /\ listMounted
    /\ LaidOut
    /\ nSupplies < MaxSupplies
    /\ nSupplies' = nSupplies + 1
    /\ listLength' = Len(currentOrderRef)
    /\ data' = d
    /\ currentOrderRef' = DataEffectOrder(currentOrderRef, d)
    /\ positions' = PositionsOf(d)
    /\ gesture' = [i \in Ids |-> IF stays(i) THEN gesture[i] ELSE "idle"]
    /\ isDragging' = [i \in Ids |-> stays(i) /\ isDragging[i]]
    /\ isDraggingShared' =
         [i \in Ids |-> stays(i) /\ isDraggingShared[i]]
    /\ initialScrollY' =
         [i \in Ids |-> IF stays(i) THEN initialScrollY[i] ELSE 0]
    /\ initialItemOffset' =
         [i \in Ids |-> IF stays(i) THEN initialItemOffset[i] ELSE 0]
    /\ initialIndex' =
         [i \in Ids |-> IF stays(i) THEN initialIndex[i]
                        ELSE IF i \in Range(d) THEN indexIn(i) ELSE 0]
    /\ initialLayoutOffset' =
         [i \in Ids |-> IF stays(i) THEN initialLayoutOffset[i] ELSE 0]
    /\ translateY' =
         [i \in Ids |->
            IF stays(i)
            THEN Reaction(i, indexIn(i), PositionsOf(d), draggableItemKey,
                          LayoutEffect(Index(i), indexIn(i), translateY[i]))
            ELSE 0]
    /\ last' = Label("supply", 0, 0, 0, 0)
    /\ UNCHANGED << listMounted, timerVars, rnQueue, draggableItemKey,
                    draggedItemPosition, layoutVars, autoScrollDirection,
                    scrollY, nDrags, nUpdates >>

\* the list is unmounted: the cleanup of useAutoScroll clears the interval
\* the ref holds; the items, their state and their gestures go with the list
Unmount ==
    /\ listMounted
    /\ LaidOut
    /\ listMounted' = FALSE
    /\ timers' = ClearInterval(timers, scrollIntervalRef)
    /\ gesture' = [i \in Ids |-> "idle"]
    /\ isDragging' = [i \in Ids |-> FALSE]
    /\ isDraggingShared' = [i \in Ids |-> FALSE]
    /\ translateY' = [i \in Ids |-> 0]
    /\ last' = Label("unmount", 0, 0, 0, 0)
    /\ UNCHANGED << data, currentOrderRef, listLength, scrollIntervalRef,
                    rnQueue, contentOffset, draggableItemKey,
                    draggedItemPosition, positions, layoutVars,
                    autoScrollDirection, scrollY, initialScrollY,
                    initialIndex, initialItemOffset, initialLayoutOffset,
                    boundVars >>

\* the user scrolls the list by hand before any drag
ScrollSet == { 50 }

UserScroll(y) ==
    /\ listMounted
    /\ LaidOut
    /\ nDrags = 0
    /\ contentOffset = 0
    /\ y <= Max(0, contentHeight - containerHeight)
    /\ contentOffset' = y
    /\ last' = Label("userScroll", 0, y, 0, 0)
    /\ UNCHANGED << listVars, isDragging, scrollIntervalRef, timers, rnQueue,
                    rnVars, autoScrollDirection >>

\* a drag start with no other finger down
OnStartAlone(i) == ActiveGestures = {} /\ OnStart(i)

\* ------------------------------------------------------- specification
Next ==
    \/ \E i \in Ids : OnLayout(i)
    \/ OnContainerLayout
    \/ OnContentSizeChange
    \/ \E i \in Ids : OnStart(i)
    \/ \E i \in Ids, t \in TransSet : OnUpdate(i, t)
    \/ \E i \in Ids : OnEnd(i)
    \/ RunSetIsDragging
    \/ RunStartAutoScroll
    \/ RunStopAutoScroll
    \/ RunHandleDragEnd
    \/ \E tm \in timers : Tick(tm)
    \/ \E d \in DataSet : SupplyData(d)

Spec == Init /\ [][Next]_vars

\* the same list mounted with fewer items, which a re-supply may add to
SpecGrow == InitShort /\ [][Next]_vars

\* the caller drops item 3 and puts item 2 first
ShrinkDataSet == { << 2, 1 >> }

\* the list of Spec with that re-supply
NextShrink ==
    \/ \E i \in Ids : OnLayout(i)
    \/ OnContainerLayout
    \/ OnContentSizeChange
    \/ \E i \in Ids : OnStart(i)
    \/ \E i \in Ids, t \in TransSet : OnUpdate(i, t)
    \/ \E i \in Ids : OnEnd(i)
    \/ RunSetIsDragging
    \/ RunStartAutoScroll
    \/ RunStopAutoScroll
    \/ RunHandleDragEnd
    \/ \E tm \in timers : Tick(tm)
    \/ \E d \in ShrinkDataSet : SupplyData(d)

SpecShrink == Init /\ [][NextShrink]_vars

\* A list whose content is taller than its view, touched with one finger at
\* a time, scrolled, and unmounted.  The interval keeps firing while it is
\* live, and the list view reports every change of its scroll offset.
NextScroll ==
    \/ \E i \in Ids : OnLayout(i)
    \/ OnContainerLayout
    \/ OnTallContentSizeChange
    \/ \E y \in ScrollSet : UserScroll(y)
    \/ OnScroll
    \/ \E i \in Ids : OnStartAlone(i)
    \/ \E i \in Ids, t \in TransSet : OnUpdate(i, t)
    \/ \E i \in Ids : OnEnd(i)
    \/ \E i \in Ids : OnCancel(i)
    \/ RunSetIsDragging
    \/ RunStartAutoScroll
    \/ RunStopAutoScroll
    \/ RunHandleDragEnd
    \/ \E tm \in timers : Tick(tm)
    \/ Unmount

SpecScroll ==
    /\ Init
    /\ [][NextScroll]_vars
    /\ WF_vars(\E tm \in timers : Tick(tm))
    /\ WF_vars(OnScroll)

\* A list touched with one finger at a time whose view may shrink below
\* three scroll zones and grow back.
NextLow ==
    \/ \E i \in Ids : OnLayout(i)
    \/ OnContainerLayout
    \/ OnLowContainerLayout
    \/ OnContentSizeChange
    \/ \E i \in Ids : OnStartAlone(i)
    \/ \E i \in Ids, t \in TransSet : OnUpdate(i, t)
    \/ \E i \in Ids : OnEnd(i)
    \/ RunSetIsDragging
    \/ RunStartAutoScroll
    \/ RunStopAutoScroll
    \/ RunHandleDragEnd
    \/ \E tm \in timers : Tick(tm)

SpecLow == Init /\ [][NextLow]_vars

\* ============================================================ properties
\* steps, recognised by the callback the next state records
StartStep == last'.op = "start"
UpdateStep == last'.op = "update" /\ last'.to # Undefined
EndStep == last'.op = "end"
DragEndStep ==
    /\ last'.op = "handleDragEnd"
    /\ rnQueue # << >>
    /\ Head(rnQueue).fn = "onDragEnd"

\* the identities in ascending slot order
SortedBySlot(pos) == SortKeys(pos, DOMAIN pos)

\* the sequence with the item at index s (0-based) taken out and put back
\* at index t
MoveItem(order, s, t) ==
    LET without == [n \in 1..(Len(order) - 1) |->
                        IF n <= s THEN order[n] ELSE order[n + 1]]
    IN [n \in 1..Len(order) |->
            IF n <= t THEN without[n]
            ELSE IF n = t + 1 THEN order[s + 1]
            ELSE without[n - 1]]

\* C1: the Position Table is a bijection from the identities of the data
\* onto the slots 0..N-1.
C1_PositionsBijection ==
    /\ DOMAIN positions = Range(data)
    /\ \A slot \in 0..(Len(data) - 1) :
         Cardinality({ k \in DOMAIN positions : positions[k] = slot }) = 1

\* C2: a drag start on an item while another item's drag is in progress
\* does not make that item the active dragged identity.
C2_SecondStartRejected ==
    [][ \A j \in Ids :
          ( /\ \E i \in Ids \ {j} : isDraggingShared[i]
            /\ draggableItemKey # j )
          => draggableItemKey' # j ]_vars

\* C3: the end event of a drag carries the dragged item's slot at its start
\* and its own slot at its end, and processing it moves the item from the
\* one index of the Logical Order to the other.
C3_EndToEndReorder ==
    [][ DragEndStep =>
          LET c == Head(rnQueue)
          IN (c.a < Len(currentOrderRef) /\ c.g # Undefined
              /\ c.g < Len(currentOrderRef))
             => /\ c.b = c.g
                /\ currentOrderRef' = MoveItem(currentOrderRef, c.a, c.g) ]_vars

\* twice the centre of the k-th of items, laid out top to bottom
Centre2(items, k) ==
    2 * SumHeights({ items[n] : n \in 1..(k - 1) }) + HeightOr0(items[k])

\* C4 (as stated): when the dragged offset is exactly on the centre of a
\* neighbour, the dragged item stays at the lower slot; it moves past the
\* neighbour only when the offset strictly exceeds the centre.
C4_TieStaysBelow ==
    [][ UpdateStep =>
          LET others == SortedItems(positions, draggableItemKey)
          IN \A k \in 1..Len(others) :
               ( /\ HeightOr0(others[k]) > 0
                 /\ last'.from # Undefined
                 /\ last'.from <= k - 1
                 /\ 2 * last'.y = Centre2(others, k) )
               => last'.to <= k - 1 ]_vars

\* C4 (amended): the target slot is past a neighbour as soon as the dragged
\* offset reaches that neighbour's centre, the tie included (up to the clamp
\* to listLength - 1); it stays at the lower slot only while the offset is
\* strictly below the centre.
C4_TiePassesNeighbour ==
    [][ UpdateStep =>
          LET others == SortedItems(positions, draggableItemKey)
          IN \A k \in 1..Len(others) :
               /\ 2 * last'.y >= Centre2(others, k)
                    => last'.to >= Min(k, listLength - 1)
               /\ 2 * last'.y < Centre2(others, k)
                    => last'.to <= k - 1 ]_vars

\* an update left the dragged item past a measured neighbour whose centre
\* the offset exactly equals
C4_Witness ==
    /\ last.op = "update"
    /\ draggableItemKey \in DOMAIN positions
    /\ LET others == SortedItems(positions, draggableItemKey)
       IN \E k \in 1..Len(others) :
            /\ HeightOr0(others[k]) > 0
            /\ 2 * last.y = Centre2(others, k)
            /\ last.from # Undefined
            /\ last.from < k
            /\ last.to >= k

\* C5: an item without a measured height is never a swap target: an update
\* whose offset is the top of the slot the dragged item already holds (no
\* movement at all) leaves the dragged item in that slot, whatever unmeasured
\* items lie next to it.
C5_UnmeasuredNeverTarget ==
    [][ ( /\ UpdateStep
          /\ draggableItemKey \in DOMAIN positions
          /\ last'.y = OffsetOfSlot(positions, positions[draggableItemKey]) )
        => last'.to = last'.from ]_vars

\* C6: once onEnd has run and no drag is in progress, no identity is marked
\* as the dragged item.
C6_MarkerClearedAfterEnd ==
    (last.op = "end" /\ ActiveGestures = {}) => draggableItemKey = NoKey

\* C7: the end event of a drag that ends in the slot it started from leaves
\* the Logical Order as it was.
C7_NoOpDragKeepsOrder ==
    [][ (DragEndStep /\ Head(rnQueue).a = Head(rnQueue).g)
        => currentOrderRef' = currentOrderRef ]_vars

\* the end events waiting in the queue
EndEvents(q) == Cardinality({ n \in DOMAIN q : q[n].fn = "onDragEnd" })

\* C8: every onEnd puts exactly one end event in the queue, carrying the
\* starting slot and the final slot, whether or not they differ; onStart and
\* onUpdate put none.
C8_OneEndEventPerDrag ==
    [][ /\ EndStep =>
             /\ EndEvents(rnQueue') = EndEvents(rnQueue) + 1
             /\ LET e == rnQueue'[Len(rnQueue')]
                IN /\ e.fn = "onDragEnd"
                   /\ e.a = last'.from
                   /\ e.b = last'.to
        /\ (StartStep \/ last'.op = "update")
             => EndEvents(rnQueue') = EndEvents(rnQueue) ]_vars

\* an onEnd of a drag whose starting and final slot are equal has queued
\* its end event
C8_Witness ==
    /\ last.op = "end"
    /\ last.from = last.to
    /\ rnQueue # << >>
    /\ LET e == rnQueue[Len(rnQueue)]
       IN e.fn = "onDragEnd" /\ e.a = e.b /\ e.a = last.from

\* C9: with no drag in progress and every end event processed,
\* getCurrentData() is the identities in ascending slot order.
C9_IdleOrderMatchesSlots ==
    (ActiveGestures = {} /\ EndEvents(rnQueue) = 0)
    => currentOrderRef = SortedBySlot(positions)

\* C10: the Logical Order changes only when an end event is processed or
\* data is supplied; onStart and onUpdate leave it alone.
C10_OrderChangesOnlyAtEndOrSupply ==
    [][ /\ currentOrderRef' # currentOrderRef
             => last'.op \in {"handleDragEnd", "supply"}
        /\ (StartStep \/ last'.op = "update")
             => currentOrderRef' = currentOrderRef ]_vars

\* an update has committed a swap to the Position Table while the Logical
\* Order is still the mounted one
C10_Witness ==
    /\ last.op = "update"
    /\ last.from # Undefined
    /\ last.from # last.to
    /\ nSupplies = 0
    /\ currentOrderRef = InitialData
    /\ positions # PositionsOf(InitialData)

\* contentHeight - containerHeight, never below 0
MaxScrollableExtent == Max(0, contentHeight - containerHeight)

\* the auto-scroll requests waiting in the queue
ScrollRequestsPending(q) ==
    Cardinality({ n \in DOMAIN q :
                    q[n].fn \in {"startAutoScroll", "stopAutoScroll"} })

\* C11: the offset a tick computes, and so every offset it commands and the
\* list view reaches, lies in [0, max(0, contentHeight - containerHeight)].
C11_TickWithinExtent ==
    /\ last.op = "tick" => (0 <= last.y /\ last.y <= MaxScrollableExtent)
    /\ LaidOut => (0 <= contentOffset /\ contentOffset <= MaxScrollableExtent)
    /\ LaidOut => (0 <= scrollY /\ scrollY <= MaxScrollableExtent)

\* a tick going down from offset 550 with speed 100 has commanded 600, the
\* extent of a content of 1000 in a view of 400
C11_Witness ==
    /\ last.op = "tick"
    /\ contentHeight = 1000
    /\ containerHeight = 400
    /\ scrollY = 550
    /\ last.y = 600
    /\ contentOffset = 600

\* C12: while the list is mounted a running interval eventually stops; the
\* tick that finds the boundary hit clears the interval and reports 'stop'.
C12_TimerSelfStops ==
    /\ (listMounted /\ timers # {}) ~> (timers = {} \/ ~listMounted)
    /\ []( (last.op = "tick" /\ listMounted /\ scrollIntervalRef = 0)
           => (timers = {} /\ autoScrollDirection = "stop") )

\* a tick has stopped the interval at the lower boundary while the finger
\* is still down and no request is waiting
C12_Witness ==
    /\ last.op = "tick"
    /\ ActiveGestures # {}
    /\ rnQueue = << >>
    /\ scrollY = MaxScrollableExtent
    /\ scrollY > 0
    /\ timers = {}
    /\ scrollIntervalRef = 0
    /\ autoScrollDirection = "stop"

C16_UnmeasuredDragSuppressed ==
    [][ ( /\ last'.op \in {"start", "update"}
          /\ draggableItemKey' = last'.item
          /\ last'.item \notin DOMAIN itemHeights )
        => /\ positions' = positions
           /\ ScrollRequestsPending(rnQueue') = ScrollRequestsPending(rnQueue)
           /\ \A n \in DOMAIN rnQueue' : rnQueue'[n].fn # "onDragStart"
      ]_vars

\* C17: supplying again the sequence the list already has, with no drag
\* since it was supplied, leaves the Logical Order and the Position Table as
\* they were.
C17_IdempotentSupply ==
    [][ (last'.op = "supply" /\ data' = data /\ nDrags = 0)
        => (currentOrderRef' = currentOrderRef /\ positions' = positions)
      ]_vars

\* the mounted sequence has been supplied a second time before any drag
C17_Witness ==
    /\ last.op = "supply"
    /\ nDrags = 0
    /\ nSupplies = 1
    /\ data = InitialData
    /\ currentOrderRef = InitialData
    /\ positions = PositionsOf(InitialData)

\* the non-dragged items that precede the first one whose centre exceeds y
Passed(others, y) ==
    Cardinality({ k \in 1..Len(others) :
                    \A j \in 1..k : Centre2(others, j) <= 2 * y })

\* C18: with every height measured, the target slot is the number of
\* non-dragged items, in slot order, before the first one whose centre
\* exceeds the dragged offset, clamped to [0, N-1].
C18_ResolverTarget ==
    [][ ( /\ UpdateStep
          /\ draggableItemKey \in DOMAIN positions
          /\ DOMAIN positions \subseteq DOMAIN itemHeights )
        => LET others == SortedItems(positions, draggableItemKey)
               N == Cardinality(DOMAIN positions)
           IN last'.to = Max(0, Min(N - 1, Passed(others, last'.y)))
      ]_vars

\* C19: a cancelled drag puts no end event in the queue, so the reorder
\* callback does not run for it.
C19_CancelEmitsNoEndEvent ==
    [][ last'.op = "cancel" => EndEvents(rnQueue') = EndEvents(rnQueue) ]_vars

\* C20: when no drag is in progress and nothing the last drag scheduled is
\* still waiting, the target visual offset of every measured item other
\* than the one dragged last is zero: a sibling displaced during the drag
\* is back at offset 0.
C20_SiblingsRestAtZero ==
    ( /\ listMounted
      /\ ActiveGestures = {}
      /\ rnQueue = << >>
      /\ timers = {}
      /\ Range(data) \subseteq DOMAIN itemHeights )
    => \A j \in Range(data) \ {draggableItemKey} :
          translateY[j] # NotANumber => translateY[j] = 0

\* C21: the slot a drag start passes to onDragStart is the dragged item's
\* slot in the Position Table at that moment, which is the origin slot the
\* item keeps for the matching onDragEnd.
C21_StartEventCarriesOriginSlot ==
    [][ StartStep =>
          /\ last'.y = Pos(positions, last'.item)
          /\ last'.y = initialIndex'[last'.item] ]_vars

\* C22: a gesture update that resolves the dragged item, at slot S, to a
\* different slot T moves it to T and moves exactly the other items with a
\* slot in (S, T] (T > S) or [T, S) (T < S) by one slot toward S; every
\* other item keeps its slot; when T = S the Position Table is not written.
C22_ShiftRange ==
    [][ ( UpdateStep /\ draggableItemKey \in DOMAIN positions )
        => LET key == draggableItemKey
               S == positions[key]
               T == last'.to
           IN IF T = S THEN positions' = positions
              ELSE /\ DOMAIN positions' = DOMAIN positions
                   /\ positions'[key] = T
                   /\ \A k \in DOMAIN positions \ {key} :
                        positions'[k] =
                          IF T > S /\ positions[k] > S /\ positions[k] <= T
                          THEN positions[k] - 1
                          ELSE IF T < S /\ positions[k] >= T
                                  /\ positions[k] < S
                          THEN positions[k] + 1
                          ELSE positions[k]
      ]_vars

\* a drag has just carried item 1 from slot 0 over two items to slot 2, and
\* both of them moved up by one
C22_Witness ==
    /\ last.op = "update"
    /\ last.from = 0
    /\ last.to = 2
    /\ draggableItemKey = 1
    /\ positions = << 2, 0, 1 >>

\* C23: the absolute offset of an update is the sum of the heights of the
\* items that were below the dragged item's slot when its drag started, plus
\* the pointer translation, plus the scroll movement since the start: a
\* start stores that sum and the scroll offset, nothing but a start of the
\* same item or a re-render changes them, and the update adds them up.
C23_AbsoluteOffset ==
    [][ /\ \A i \in Ids :
            ( StartStep /\ last'.item = i /\ i \in DOMAIN positions )
            => /\ initialItemOffset'[i] =
                    SumHeights({ k \in DOMAIN positions :
                                   positions[k] < positions[i] })
               /\ initialScrollY'[i] = scrollY
        /\ \A i \in Ids :
            ( \/ initialItemOffset'[i] # initialItemOffset[i]
              \/ initialScrollY'[i] # initialScrollY[i] )
            => \/ StartStep /\ last'.item = i
               \/ last'.op \in { "supply", "unmount" }
        /\ last'.op = "update"
            => last'.y = initialItemOffset[last'.item] + last'.t
                           + (scrollY - initialScrollY[last'.item])
      ]_vars

\* item 3 starts at offset 180 with the list unscrolled; after the list has
\* scrolled by 100 an update with translation 210 resolves offset 490
C23_Witness ==
    /\ last.op = "update"
    /\ last.item = 3
    /\ last.t = 210
    /\ initialItemOffset[3] = 180
    /\ scrollY - initialScrollY[3] = 100
    /\ last.y = 490

\* C24: when the caller supplies a sequence D, the Position Table becomes
\* the map from each identity of D to its index in D, with no other key, and
\* getCurrentData() returns D, whatever order earlier drags had produced.
C24_SupplyResetsTableAndOrder ==
    [][ last'.op = "supply"
        => /\ DOMAIN positions' = Range(data')
           /\ \A n \in 1..Len(data') : positions'[data'[n]] = n - 1
           /\ currentOrderRef' = data'
      ]_vars

\* item 1 was dragged to slot 2 and the drag was processed, then the caller
\* supplied [1,2,3] again: the table and the order are those of [1,2,3]
C24_Witness ==
    /\ last.op = "supply"
    /\ data = << 1, 2, 3 >>
    /\ draggableItemKey = 1
    /\ draggedItemPosition = 2
    /\ ActiveGestures = {}
    /\ rnQueue = << >>
    /\ positions = << 0, 1, 2 >>
    /\ currentOrderRef = << 1, 2, 3 >>

\* C25: a gesture update leaves the direction 'up' when the dragged item's
\* offset relative to the viewport is below 100, otherwise 'down' when it is
\* above containerHeight - 200, otherwise 'stop'; where both tests hold
\* (containerHeight < 300) the direction is 'up'.
C25_ZoneDirection ==
    [][ UpdateStep
        => LET visualY == last'.y - scrollY
           IN /\ visualY < 100 => autoScrollDirection' = "up"
              /\ ( visualY >= 100 /\ visualY > containerHeight - 200 )
                   => autoScrollDirection' = "down"
              /\ ( visualY >= 100 /\ visualY <= containerHeight - 200 )
                   => autoScrollDirection' = "stop"
      ]_vars

\* an update in a view 250 high at viewport offset 60: below the top band
\* and above the bottom threshold 50 at once, and the direction is 'up'
C25_Witness ==
    /\ last.op = "update"
    /\ last.to # Undefined
    /\ containerHeight = 250
    /\ last.y - scrollY = 60
    /\ autoScrollDirection = "up"

\* C26: the end event an item's onEnd puts in the queue carries that item's
\* own slot at its drag start and that item's own slot at this moment,
\* however the callbacks of another item were interleaved with its own.
C26_EndEventIsOwnSlots ==
    [][ ( /\ EndStep
          /\ last'.item \in DOMAIN positions
          /\ Len(rnQueue') > Len(rnQueue) )
        => LET e == rnQueue'[Len(rnQueue')]
               i == last'.item
           IN /\ e.fn = "onDragEnd"
              /\ e.item = i
              /\ e.a = initialIndex[i]
              /\ e.b = positions[i]
      ]_vars

\* C27: while the list is mounted and no start or stop request waits for
\* the RN context, an interval is live exactly when autoScrollDirection is
\* 'up' or 'down', and a live interval scrolls in that direction.
C27_TimerMatchesDirection ==
    ( listMounted /\ ScrollRequestsPending(rnQueue) = 0 )
    => /\ (timers # {}) <=> (autoScrollDirection \in { "up", "down" })
       /\ \A tm \in timers : tm.direction = autoScrollDirection

\* C28: after the interval has stopped itself at a boundary of a scrollable
\* list (offset 0 going up, content - container going down), an update that
\* finds the dragged item in the zone of that boundary again schedules no
\* start of a new interval.
C28_NoRestartAtBoundary ==
    [][ ( /\ listMounted
          /\ MaxScrollableExtent > 0
          /\ last.op = "tick"
          /\ last.y = scrollY
          /\ timers = {}
          /\ ScrollRequestsPending(rnQueue) = 0
          /\ UpdateStep
          /\ \/ scrollY = 0 /\ autoScrollDirection' = "up"
             \/ scrollY = MaxScrollableExtent /\ autoScrollDirection' = "down" )
        => ScrollRequestsPending(rnQueue') = 0
      ]_vars

\* the top of item j in the layout of the rendered data: the heights of the
\* items rendered before it
LayoutTop(j) == SumHeights({ k \in Range(data) : Index(k) < Index(j) })

\* C29: during a drag with every height measured, the target visual top of
\* each item other than the dragged one (its layout top plus its target
\* offset) is the sum of the heights of the items in lower slots, so the
\* items are stacked without gap or overlap.
C29_SiblingsStackBySlot ==
    ( /\ listMounted
      /\ ActiveGestures # {}
      /\ DOMAIN positions = Range(data)
      /\ Range(data) \subseteq DOMAIN itemHeights )
    => \A j \in Range(data) \ {draggableItemKey} :
          translateY[j] # NotANumber
          => LayoutTop(j) + translateY[j] = OffsetOfSlot(positions, positions[j])

\* C30: getCurrentData() is always a permutation of the data supplied
\* last: the same length, every supplied item exactly once, and no
\* undefined entry.
C30_OrderIsPermutation ==
    /\ Len(currentOrderRef) = Len(data)
    /\ \A n \in DOMAIN currentOrderRef : currentOrderRef[n] # Undefined
    /\ \A k \in Range(data) :
         Cardinality({ n \in DOMAIN currentOrderRef :
                         currentOrderRef[n] = k }) = 1

\* C31: the slot an update resolves does not depend on the slot the dragged
\* item holds: with the dragged item moved to any other slot the same offset
\* resolves the same slot; so an update that follows an update of the same
\* item with the same absolute offset leaves the Position Table as it is.
C31_ResolutionIdempotent ==
    [][ ( UpdateStep /\ draggableItemKey \in DOMAIN positions )
        => LET key == draggableItemKey
               y == last'.y
           IN /\ \A s \in 0..(Cardinality(DOMAIN positions) - 1) :
                    NewPosition(ModifyPositions(positions, key, s), key, y)
                      = last'.to
              /\ ( /\ last.op = "update"
                   /\ last.to # Undefined
                   /\ last.item = last'.item
                   /\ last.y = y )
                 => positions' = positions
      ]_vars

\* C32: while the list is mounted at most one auto-scroll interval is live,
\* and the stored handle is non-null exactly when one is live, in which
\* case it is the handle of that interval.
C32_OneIntervalAndHandle ==
    listMounted
    => /\ Cardinality(timers) <= 1
       /\ (scrollIntervalRef # 0) <=> (timers # {})
       /\ \A tm \in timers : tm.id = scrollIntervalRef

\* a second startAutoScroll has replaced the interval of the first: the
\* only live interval is the new one, going down, and the ref holds it
C32_Witness ==
    /\ listMounted
    /\ last.op = "startAutoScroll"
    /\ scrollIntervalRef = 2
    /\ timers = { [id |-> 2, direction |-> "down"] }

=============================================================================
